---- MODULE Spec2Model ----
(***************************************************************************)
(* Model of the real-time collection pipeline of the sentiment analysis    *)
(* project: the Twitter fetch with its retry loop, the three-way fan-out   *)
(* of RealTimePipeline.collect_data_from_all_sources, the cycle            *)
(* (scoring, storage), the scheduler loop of start_streaming, and the      *)
(* callers of stop_streaming in main.py.                                   *)
(*                                                                         *)
(* Spec is the whole application; SpecFetch is collect_tweets alone;       *)
(* SpecKeywords adds a thread that calls update_keywords; SpecCycle is the *)
(* loop with failing sources, Spark and storage; SpecScore is the          *)
(* SentimentAnalyzer alone; SpecLimit is one fetch call of each collector  *)
(* with the number of items it asks for and returns; SpecErrors is the     *)
(* ErrorHandler alone.                                                     *)
(*                                                                         *)
(* Time is the value of time.time() in seconds.  CPU steps take no time;   *)
(* time passes only while every thread is blocked (AdvanceTime), and it    *)
(* jumps to the next instant at which a sleep, a timeout or a source       *)
(* answer is due.                                                          *)
(***************************************************************************)
EXTENDS Integers, Sequences, FiniteSets, TLC

VARIABLES
    mode,            \* "pipeline" (main.py --mode pipeline), "full", or
                     \* what a caller exercises on its own: "fetch", "score",
                     \* "limit", "errors"
    twitter_faults,  \* the errors the Twitter API raises in this run
    now,             \* time.time()
    app_pipeline,    \* SentimentAnalysisApp.pipeline: "none" | "set"
    app_is_running,  \* SentimentAnalysisApp.is_running
    main_pc,         \* main thread of the full system
    signals,         \* shutdown signals delivered so far
    pl_pc,           \* position of the thread that runs the pipeline
    is_running,      \* RealTimePipeline.is_running
    spark_stops,     \* calls of DataProcessor.stop_spark
    db_closes,       \* calls of MongoDBClient.close_connection
    cycles,          \* cycles started by start_streaming
    stage,           \* stage of the current cycle
    stages_run,      \* stages the current cycle went through, in order
    cycle_start,     \* start_streaming: cycle_start
    cycle_duration,  \* start_streaming: cycle_duration of the last cycle
    sleep_time,      \* start_streaming: sleep_time of the last cycle
    wake,            \* end of the scheduler's time.sleep
    join_deadline,   \* end of the current future.result(timeout=30)
    fanout_start,    \* time at which the cycle's futures were submitted
    wk,              \* reddit / youtube worker: [st, fin, res, done_at]
    joined,          \* per adapter: "pending" | "ok" | "timeout"
    all_posts,       \* collect_data_from_all_sources: all_posts
    raw_posts,       \* run_single_cycle: raw_posts
    sentiment_results, \* run_single_cycle: sentiment_results
    written_posts,   \* documents insert_raw_posts wrote in this cycle
    written_results, \* documents insert_sentiment_results wrote in this cycle
    stop_cycle,      \* cycle whose fan-out was in flight at a stop_streaming call
    interrupted,     \* a KeyboardInterrupt was raised in the pipeline thread
    tw_pc,           \* collect_tweets: "idle" | "attempt" | "sleeping" | "done"
    attempt,         \* collect_tweets: attempt
    backoff_time,    \* collect_tweets: backoff_time
    tweets_data,     \* collect_tweets: tweets_data
    tw_wake,         \* end of the time.sleep inside collect_tweets
    tw_result,       \* value returned by collect_tweets
    tw_done_at,      \* time at which collect_tweets returned
    tw_calls,        \* calls of collect_tweets so far
    api_calls,       \* search requests made by the current collect_tweets call
    sleeps,          \* waits of the current collect_tweets call, in order
    tw_errs,         \* errors raised to the current collect_tweets call, in order
    keywords,        \* RealTimePipeline.keywords
    kw_used,         \* per adapter: the keywords its call was submitted with
    db_connects,     \* calls of MongoDBClient.connect
    db_connected,    \* the ping of MongoDBClient.connect succeeded
    stats,           \* run_single_cycle: stats
    spark_raised,    \* process_batch_data raised in this cycle
    is_trained,      \* SentimentAnalyzer.is_trained
    lexicon,         \* what TextBlob answers for each text
    scored,          \* calls of predict_sentiment made by a caller, in order
    fetch,           \* the last fetch call of a collector: what it was given,
                     \* what it asked its API for and what it returned
    error_counts,    \* ErrorHandler.error_counts
    last_errors,     \* ErrorHandler.last_errors
    handled          \* calls of the ErrorHandler entry points since the last
                     \* reset_error_counts, in order

vars == << mode, twitter_faults, now, app_pipeline, app_is_running, main_pc, signals, pl_pc,
           is_running, spark_stops, db_closes, cycles, stage, stages_run,
           cycle_start, cycle_duration, sleep_time, wake, join_deadline,
           fanout_start, wk, joined, all_posts, raw_posts, sentiment_results,
           written_posts, written_results, stop_cycle, interrupted,
           tw_pc, attempt, backoff_time, tweets_data, tw_wake, tw_result,
           tw_done_at, tw_calls, api_calls, sleeps, tw_errs, keywords,
           kw_used, db_connects, db_connected, stats, spark_raised,
           is_trained, lexicon, scored, fetch, error_counts, last_errors,
           handled >>

handlerVars == << error_counts, last_errors, handled >>
envVars  == << keywords, is_trained, lexicon, scored, fetch, handlerVars >>
mainVars == << mode, twitter_faults, app_pipeline, app_is_running, main_pc,
               signals, db_connects, db_connected, envVars >>
loopVars == << cycles, stage, stages_run, cycle_start, cycle_duration,
               sleep_time, wake >>
fanVars  == << join_deadline, fanout_start, wk, joined, all_posts, kw_used >>
dataVars == << raw_posts, sentiment_results, written_posts, written_results,
               stats, spark_raised >>
twVars   == << tw_pc, attempt, backoff_time, tweets_data, tw_wake, tw_result,
               tw_done_at, tw_calls, api_calls, sleeps, tw_errs >>
stopVars == << is_running, spark_stops, db_closes, stop_cycle >>

-----------------------------------------------------------------------------
(* Bounds of the model *)

MaxCycles == 2
MaxSignals == 1
MaxCalls == 2
MaxScored == 2

(* Program constants *)

max_retries == 3
InitialBackoff == 60
OtherErrorWaitCap == 30
ResultTimeout == 30
UPDATE_INTERVAL == 30
MinTextLength == 10
RetryCountCeiling == 5
DefaultRetryCount == 3
PositiveAbove == 10
NegativeBelow == -10

None == "None"

Max(a, b) == IF a >= b THEN a ELSE b
Min(a, b) == IF a <= b THEN a ELSE b

MinOf(S) == CHOOSE x \in S : \A y \in S : x <= y

AdapterSet == { "twitter", "reddit", "youtube" }

-----------------------------------------------------------------------------
(* Python dictionaries are functions on their keys *)

Get(d, k) == IF k \in DOMAIN d THEN d[k] ELSE None

(* Python truthiness of an optional string *)
Truthy(s) == s # None /\ s # ""

-----------------------------------------------------------------------------
(* utils/error_handler.py: classification of an error by its message *)

LowerChar(c) ==
    CASE c = "U" -> "u"
      [] c = "F" -> "f"
      [] c = "T" -> "t"
      [] c = "M" -> "m"
      [] c = "R" -> "r"
      [] c = "C" -> "c"
      [] OTHER -> c

RECURSIVE Lower(_)
Lower(s) == IF Len(s) = 0 THEN ""
            ELSE LowerChar(SubSeq(s, 1, 1)) \o Lower(SubSeq(s, 2, Len(s)))

Contains(s, t) ==
    \E i \in 1..(Len(s) - Len(t) + 1) : SubSeq(s, i, i + Len(t) - 1) = t

AnyTerm(msg, terms) == \E t \in terms : Contains(Lower(msg), t)

NetworkTerms == { "timeout", "connection", "network" }
RateLimitTerms == { "rate limit", "too many requests" }
AuthTerms == { "unauthorized", "forbidden", "invalid credentials" }

\* ErrorHandler._should_retry
ShouldRetry(msg, error_count) ==
    IF error_count > RetryCountCeiling THEN FALSE
    ELSE IF AnyTerm(msg, NetworkTerms) THEN TRUE
    ELSE IF AnyTerm(msg, RateLimitTerms) THEN TRUE
    ELSE IF AnyTerm(msg, AuthTerms) THEN FALSE
    ELSE error_count <= DefaultRetryCount

-----------------------------------------------------------------------------
(* data_collection/twitter_collector.py *)

\* Errors the Twitter client raises: the exception class and str(error)
ApiErrors ==
    { [type |-> "TooManyRequests", msg |-> "429 Too Many Requests"],
      [type |-> "Unauthorized",    msg |-> "401 Unauthorized"],
      [type |-> "ConnectionError", msg |-> "Connection timeout"],
      [type |-> "ProxyError",
       msg |-> "Tunnel connection failed: 403 Forbidden"] }

IsRateLimit(e) == e.type = "TooManyRequests"
IsNonRetryable(e) == AnyTerm(e.msg, AuthTerms)

\* What the search delivers: one English tweet, then one that is not English
TweetFeed ==
    << [id |-> "t1", lang |-> "en", text |-> "python is great"],
       [id |-> "t2", lang |-> "fr", text |-> "python est super"] >>

\* collect_tweets, lines 35-47: the dictionary built from one tweet
TweetData(tweet, t, n) ==
    [id |-> tweet.id, text |-> tweet.text, platform |-> "twitter",
     collected_at |-> << t, n >>]

RECURSIVE Gathered(_, _, _)
\* collect_tweets, lines 34-47: the English tweets among the first n delivered
Gathered(feed, n, t) ==
    IF n = 0 THEN << >>
    ELSE LET rest == Gathered(feed, n - 1, t)
         IN IF feed[n].lang = "en" THEN Append(rest, TweetData(feed[n], t, n))
            ELSE rest

\* A bound that is off by one: a wait and a fourth attempt after the third failure
RetriesLeftOffByOne(att) == att < max_retries

\* collect_tweets, lines 52-66: is another attempt made after this failure
RetriesLeft(att) == att < max_retries - 1

\* A wait that is the backoff for every error
WaitForUncapped(e, backoff) == backoff

\* collect_tweets, lines 55 and 64: the wait before the next attempt
WaitFor(e, backoff) ==
    IF IsRateLimit(e) THEN backoff ELSE Min(backoff, OtherErrorWaitCap)

\* A backoff that never grows
NextBackoffNoDoubling(e, backoff) == backoff

\* collect_tweets, line 56: the backoff after a failure
NextBackoff(e, backoff) == IF IsRateLimit(e) THEN backoff * 2 ELSE backoff

\* A call that starts with the attempt count and the backoff the previous call
\* ended with
TwBeginKeepsRetryState ==
    /\ tw_pc' = "attempt"
    /\ attempt' = attempt
    /\ backoff_time' = backoff_time
    /\ tweets_data' = << >>
    /\ tw_result' = << >>
    /\ api_calls' = 0
    /\ sleeps' = << >>
    /\ tw_errs' = << >>
    /\ tw_calls' = tw_calls + 1
    /\ UNCHANGED << tw_wake, tw_done_at >>

\* collect_tweets, lines 18-24: the call starts
TwBegin ==
    /\ tw_pc' = "attempt"
    /\ attempt' = 0
    /\ backoff_time' = InitialBackoff
    /\ tweets_data' = << >>
    /\ tw_result' = << >>
    /\ api_calls' = 0
    /\ sleeps' = << >>
    /\ tw_errs' = << >>
    /\ tw_calls' = tw_calls + 1
    /\ UNCHANGED << tw_wake, tw_done_at >>

\* The locals of a call that has returned are gone
TwForget ==
    /\ tw_pc' = "idle"
    /\ attempt' = 0
    /\ backoff_time' = InitialBackoff
    /\ tweets_data' = << >>
    /\ tw_result' = << >>
    /\ tw_wake' = 0
    /\ tw_done_at' = 0
    /\ api_calls' = 0
    /\ sleeps' = << >>
    /\ tw_errs' = << >>
    /\ UNCHANGED tw_calls

\* collect_tweets, lines 25-50 and 68: an attempt that iterates the whole search
TwAttemptOk ==
    /\ tw_pc = "attempt"
    /\ tweets_data' = tweets_data \o Gathered(TweetFeed, Len(TweetFeed), now)
    /\ tw_result' = tweets_data'
    /\ tw_pc' = "done"
    /\ tw_done_at' = now
    /\ api_calls' = api_calls + 1
    /\ UNCHANGED << attempt, backoff_time, tw_wake, sleeps, tw_errs, tw_calls >>
    /\ UNCHANGED << mainVars, now, pl_pc, loopVars, fanVars, dataVars,
                    stopVars, interrupted >>

\* collect_tweets, lines 25-47 and 52-66: an attempt that raises e after
\* `got` tweets were delivered
TwAttemptFail(e, got) ==
    /\ tw_pc = "attempt"
    /\ e \in twitter_faults
    /\ tweets_data' = tweets_data \o Gathered(TweetFeed, got, now)
    /\ api_calls' = api_calls + 1
    /\ tw_errs' = Append(tw_errs, e)
    /\ IF RetriesLeft(attempt)
       THEN /\ tw_pc' = "sleeping"
            /\ tw_wake' = now + WaitFor(e, backoff_time)
            /\ sleeps' = Append(sleeps, WaitFor(e, backoff_time))
            /\ backoff_time' = NextBackoff(e, backoff_time)
            /\ UNCHANGED << tw_result, tw_done_at >>
       ELSE /\ tw_pc' = "done"
            /\ tw_result' = << >>
            /\ tw_done_at' = now
            /\ UNCHANGED << tw_wake, sleeps, backoff_time >>
    /\ UNCHANGED << attempt, tw_calls >>
    /\ UNCHANGED << mainVars, now, pl_pc, loopVars, fanVars, dataVars,
                    stopVars, interrupted >>

\* collect_tweets, line 24: time.sleep returned, the next attempt begins
TwWake ==
    /\ tw_pc = "sleeping"
    /\ now >= tw_wake
    /\ attempt' = attempt + 1
    /\ tw_pc' = "attempt"
    /\ UNCHANGED << backoff_time, tweets_data, tw_wake, tw_result, tw_done_at,
                    tw_calls, api_calls, sleeps, tw_errs >>
    /\ UNCHANGED << mainVars, now, pl_pc, loopVars, fanVars, dataVars,
                    stopVars, interrupted >>

-----------------------------------------------------------------------------
(* data_collection/reddit_collector.py, youtube_collector.py *)

\* Submissions a Reddit search can deliver: a text post and a link post
Submission(id) ==
    CASE id = "r1" ->
           [id |-> id, title |-> "Python tips", selftext |-> "I love python a lot"]
      [] id = "r3" ->
           [id |-> id, title |-> "Ten", selftext |-> "bad python"]
      [] id = "r4" ->
           [id |-> id, title |-> "Nine", selftext |-> "no python"]
      [] id = "r5" ->
           [id |-> id, title |-> "Eleven", selftext |-> "python good"]
      [] id = "r6" ->
           [id |-> id, title |-> "Tips", selftext |-> "great python tips"]
      [] OTHER ->
           [id |-> id, title |-> "AI news of today", selftext |-> ""]

\* The ids found by the searches of one collect_posts call, in order; the same
\* submission can match two keywords
RedditFinds == { << >>, << "r1", "r1" >>, << "r1", "r2" >> }

\* collect_posts, lines 28-43: the dictionary built from the k-th submission
PostData(id, t, k) ==
    [id |-> id, title |-> Submission(id).title, text |-> Submission(id).selftext,
     platform |-> "reddit", collected_at |-> << t, k >>]

\* RedditCollector.collect_posts: the list returned
CollectPosts(found, t) == [k \in 1..Len(found) |-> PostData(found[k], t, k)]

YouTubeFinds == { << >>, << "y1" >> }

\* search_videos, lines 26-34: the dictionary built from the k-th video
VideoData(id, t, k) ==
    [id |-> id, title |-> "Learn python in one hour",
     description |-> "A course", platform |-> "youtube",
     collected_at |-> << t, k >>]

\* YouTubeCollector.search_videos: the list returned
SearchVideos(found, t) == [k \in 1..Len(found) |-> VideoData(found[k], t, k)]

\* Seconds a source takes to answer (a source may also never answer)
AnswerTimes == { 0, 50 }

-----------------------------------------------------------------------------
(* sentiment_analysis/sentiment_analyzer.py.  Polarity, subjectivity,        *)
(* confidence and probabilities are in hundredths.                           *)

Abs(x) == IF x < 0 THEN -x ELSE x

\* TextBlob(text).sentiment: a text without a word of the lexicon has
\* polarity 0.0 and subjectivity 0.0
Sentiment(text) ==
    IF text \in DOMAIN lexicon THEN lexicon[text]
    ELSE [polarity |-> 0, subjectivity |-> 0]

\* What TextBlob answers for the texts the sources deliver
DefaultLexicon ==
    [t \in { "python is great", "I love python a lot", "bad python",
             "python good", "great python tips" } |->
        CASE t = "python is great"     -> [polarity |-> 80, subjectivity |-> 75]
          [] t = "I love python a lot" -> [polarity |-> 50, subjectivity |-> 60]
          [] t = "bad python"          -> [polarity |-> -70, subjectivity |-> 67]
          [] t = "python good"         -> [polarity |-> 70, subjectivity |-> 60]
          [] OTHER                     -> [polarity |-> 80, subjectivity |-> 75]]

\* Thresholds that include their bounds
LabelOfInclusive(polarity) ==
    IF polarity >= PositiveAbove THEN "positive"
    ELSE IF polarity <= NegativeBelow THEN "negative"
    ELSE "neutral"

\* textblob_sentiment, lines 25-30
LabelOf(polarity) ==
    IF polarity > PositiveAbove THEN "positive"
    ELSE IF polarity < NegativeBelow THEN "negative"
    ELSE "neutral"

\* SentimentAnalyzer.textblob_sentiment
TextblobSentiment(text) ==
    LET polarity == Sentiment(text).polarity
        subjectivity == Sentiment(text).subjectivity
    IN [label |-> LabelOf(polarity), polarity |-> polarity,
        subjectivity |-> subjectivity, confidence |-> Abs(polarity)]

\* predict_sentiment, line 89; a prediction outside the map raises KeyError
label_map == [p \in { 0, 1, 2 } |->
                 CASE p = 0 -> "negative" [] p = 1 -> "neutral"
                   [] OTHER -> "positive"]

\* What the trained model does with one text: transform, predict or
\* predict_proba raise, or they return a class and three probabilities
ModelAnswers ==
    { [raises |-> TRUE,  prediction |-> 0, probabilities |-> << 0, 0, 0 >>],
      [raises |-> FALSE, prediction |-> 2, probabilities |-> << 10, 20, 70 >>],
      [raises |-> FALSE, prediction |-> 0, probabilities |-> << 60, 30, 10 >>],
      [raises |-> FALSE, prediction |-> 3, probabilities |-> << 10, 20, 70 >>] }

\* With model and vectorizer None every call of the trained path raises
NoModel == [raises |-> TRUE, prediction |-> 0, probabilities |-> << 0, 0, 0 >>]

\* predict_sentiment, lines 82-100: does the trained path raise
TrainedPathRaises(m) == m.raises \/ m.prediction \notin DOMAIN label_map

\* A fallback that is taken only when no model is trained
UsesHeuristicUntrainedOnly(trained, m) == ~trained

\* predict_sentiment, lines 78-80 and 102-104: is the answer TextBlob's
UsesHeuristic(trained, m) == ~trained \/ TrainedPathRaises(m)

\* SentimentAnalyzer.predict_sentiment; Raised is the error that leaves it
Raised == [label |-> "error"]

PredictSentiment(text, trained, m) ==
    IF UsesHeuristic(trained, m) THEN TextblobSentiment(text)
    ELSE IF TrainedPathRaises(m) THEN Raised
    ELSE [label |-> label_map[m.prediction],
          confidence |-> Max(m.probabilities[1],
                             Max(m.probabilities[2], m.probabilities[3])),
          probabilities |-> [negative |-> m.probabilities[1],
                             neutral  |-> m.probabilities[2],
                             positive |-> m.probabilities[3]]]

-----------------------------------------------------------------------------
(* streaming/data_processor.py *)

\* define_schema and createDataFrame: the columns kept of a dictionary
SchemaRow(d) ==
    [id |-> Get(d, "id"), text |-> Get(d, "text"),
     platform |-> Get(d, "platform"), collected_at |-> Get(d, "collected_at")]

\* process_batch_data, lines 54-56: the filter on text
KeepsText(row) == row.text # None /\ Len(row.text) > MinTextLength

RECURSIVE Distinct(_)
\* DataFrame.distinct: equal rows are kept once
Distinct(rows) ==
    IF rows = << >> THEN << >>
    ELSE LET init == Distinct(SubSeq(rows, 1, Len(rows) - 1))
             last == rows[Len(rows)]
         IN IF \E i \in 1..Len(init) : init[i] = last THEN init
            ELSE Append(init, last)

\* DataProcessor.process_batch_data; a stopped Spark session raises, and the
\* handler of line 70 returns []
ProcessBatchData(posts, sparkStopped) ==
    IF posts = << >> \/ sparkStopped THEN << >>
    ELSE Distinct(SelectSeq([i \in 1..Len(posts) |-> SchemaRow(posts[i])],
                            KeepsText))

Labels == { "positive", "neutral", "negative" }

\* aggregate_sentiment_stats, lines 86-100: the results counted under a label
CountOf(results, label) ==
    Cardinality({ i \in 1..Len(results) : results[i].sentiment.label = label })

\* aggregate_sentiment_stats, lines 105-107: round(count / total * 100, 2),
\* in hundredths of a percent
Percentage(count, total) ==
    IF total > 0 THEN (2 * count * 10000 + total) \div (2 * total) ELSE 0

NoStats == [positive |-> 0, neutral |-> 0, negative |-> 0, total |-> 0]

\* DataProcessor.aggregate_sentiment_stats
AggregateSentimentStats(results) ==
    IF results = << >> THEN NoStats
    ELSE LET total == CountOf(results, "positive") + CountOf(results, "neutral")
                          + CountOf(results, "negative")
         IN [positive |-> Percentage(CountOf(results, "positive"), total),
             neutral  |-> Percentage(CountOf(results, "neutral"), total),
             negative |-> Percentage(CountOf(results, "negative"), total),
             total    |-> total]

-----------------------------------------------------------------------------
(* streaming/real_time_pipeline.py: one cycle *)

\* process_sentiment_batch, line 87
ScoredText(post) ==
    IF Truthy(Get(post, "text")) THEN Get(post, "text")
    ELSE IF Truthy(Get(post, "title")) THEN Get(post, "title")
    ELSE IF Truthy(Get(post, "description")) THEN Get(post, "description")
    ELSE Get(post, "description")

\* A result that carries the platform in place of the id
ResultOfPlatformAsId(post) ==
    [post_id |-> Get(post, "platform"), platform |-> Get(post, "platform"),
     text |-> ScoredText(post),
     sentiment |-> PredictSentiment(ScoredText(post), is_trained, NoModel)]

\* process_sentiment_batch, lines 90-105
ResultOf(post) ==
    [post_id |-> Get(post, "id"), platform |-> Get(post, "platform"),
     text |-> ScoredText(post),
     sentiment |-> PredictSentiment(ScoredText(post), is_trained, NoModel)]

HasText(post) == Truthy(ScoredText(post))

\* RealTimePipeline.process_sentiment_batch
ProcessSentimentBatch(posts, sparkStopped) ==
    LET cleaned == SelectSeq(ProcessBatchData(posts, sparkStopped), HasText)
    IN [i \in 1..Len(cleaned) |-> ResultOf(cleaned[i])]

\* config/settings.py, line 36
DEFAULT_KEYWORDS == << "python", "AI", "machine learning" >>

\* Keyword lists a caller of update_keywords passes
NewKeywords == { << "rust" >>, << "go", "java" >> }

\* No call has been submitted in this cycle
NotSubmitted == [a \in AdapterSet |-> << >>]

IdleWorkers == [a \in { "reddit", "youtube" } |->
                   [st |-> "idle", fin |-> 0, res |-> << >>, done_at |-> 0]]

NotJoined == [a \in AdapterSet |-> "pending"]

\* Has the worker of adapter a returned
WorkerDone(a) == IF a = "twitter" THEN tw_pc = "done" ELSE wk[a].st = "done"

\* The value the future of adapter a holds
WorkerResult(a) == IF a = "twitter" THEN tw_result ELSE wk[a].res

\* The time at which the worker of adapter a returned
WorkerDoneAt(a) == IF a = "twitter" THEN tw_done_at ELSE wk[a].done_at

\* A join sequence that leaves the `with` block after the second future
AfterJoinSkipsLast(a) ==
    CASE a = "twitter" -> "join_reddit"
      [] OTHER         -> "executor_exit"

\* The position of the pipeline thread after the join of adapter a
AfterJoin(a) ==
    CASE a = "twitter" -> "join_reddit"
      [] a = "reddit"  -> "join_youtube"
      [] OTHER         -> "executor_exit"

\* Positions between the first submit and the end of the `with` block
FanOutPcs == { "submit_reddit", "submit_youtube", "join_twitter",
               "join_reddit", "join_youtube", "executor_exit" }

\* No collector has been called by the caller
NoFetch == [adapter |-> "none"]

\* {}
EmptyDict == [k \in { } |-> 0]

\* The state before anything has run
InitCommon ==
    /\ now = 0
    /\ app_pipeline = "none"
    /\ signals = 0
    /\ is_running = FALSE
    /\ spark_stops = 0
    /\ db_closes = 0
    /\ cycles = 0
    /\ stage = "IDLE"
    /\ stages_run = << >>
    /\ cycle_start = 0
    /\ cycle_duration = 0
    /\ sleep_time = 0
    /\ wake = 0
    /\ join_deadline = 0
    /\ fanout_start = 0
    /\ wk = IdleWorkers
    /\ joined = NotJoined
    /\ all_posts = << >>
    /\ raw_posts = << >>
    /\ sentiment_results = << >>
    /\ written_posts = << >>
    /\ written_results = << >>
    /\ stop_cycle = 0
    /\ interrupted = FALSE
    /\ tw_pc = "idle"
    /\ attempt = 0
    /\ backoff_time = InitialBackoff
    /\ tweets_data = << >>
    /\ tw_wake = 0
    /\ tw_result = << >>
    /\ tw_done_at = 0
    /\ tw_calls = 0
    /\ api_calls = 0
    /\ sleeps = << >>
    /\ tw_errs = << >>
    /\ keywords = DEFAULT_KEYWORDS
    /\ kw_used = NotSubmitted
    /\ db_connects = 0
    /\ db_connected = FALSE
    /\ stats = NoStats
    /\ spark_raised = FALSE
    /\ scored = << >>
    /\ fetch = NoFetch
    /\ error_counts = EmptyDict
    /\ last_errors = EmptyDict
    /\ handled = << >>

\* main.py, main(): the application starts in --mode pipeline or --mode full;
\* the Twitter API answers or limits the rate
Init ==
    /\ mode \in { "pipeline", "full" }
    /\ twitter_faults = { e \in ApiErrors : IsRateLimit(e) }
    /\ app_is_running = (mode = "full")
    /\ main_pc = IF mode = "full" THEN "monitor" ELSE "none"
    /\ pl_pc = "create"
    /\ lexicon = DefaultLexicon
    /\ is_trained = FALSE
    /\ InitCommon

\* A caller of TwitterCollector.collect_tweets on its own; the Twitter API
\* may raise any of ApiErrors
InitFetch ==
    /\ mode = "fetch"
    /\ twitter_faults = ApiErrors
    /\ app_is_running = FALSE
    /\ main_pc = "none"
    /\ pl_pc = "caller"
    /\ lexicon = DefaultLexicon
    /\ is_trained = FALSE
    /\ InitCommon

\* A connect that logs the failure and returns
ConnectRaisesNever(connected) == FALSE

\* MongoDBClient.connect, lines 24-26: the failure is logged and raised again
ConnectRaises(connected) == ~connected

\* main.py, lines 52 and 114; RealTimePipeline.__init__: MongoDBClient.connect
\* raises when the storage cannot be reached
CreatePipeline(connected) ==
    /\ pl_pc = "create"
    /\ db_connects' = db_connects + 1
    /\ db_connected' = connected
    /\ IF ConnectRaises(connected)
       THEN app_pipeline' = "none" /\ pl_pc' = "failed"
       ELSE app_pipeline' = "set" /\ pl_pc' = "start"
    /\ UNCHANGED << mode, twitter_faults, app_is_running, main_pc, signals,
                    envVars, now, loopVars, fanVars, dataVars, stopVars,
                    interrupted, twVars >>

\* start_streaming, lines 156-157
StartStreaming ==
    /\ pl_pc = "start"
    /\ is_running' = TRUE
    /\ pl_pc' = "loop_check"
    /\ UNCHANGED << mainVars, now, loopVars, fanVars, dataVars, spark_stops,
                    db_closes, stop_cycle, interrupted, twVars >>

\* start_streaming, lines 159-164, and run_single_cycle, line 132
LoopCheck ==
    /\ pl_pc = "loop_check"
    /\ IF is_running
       THEN /\ cycles < MaxCycles
            /\ cycles' = cycles + 1
            /\ cycle_start' = now
            /\ stage' = "COLLECTING"
            /\ stages_run' = << "COLLECTING" >>
            /\ pl_pc' = "submit_twitter"
            /\ joined' = NotJoined
            /\ all_posts' = << >>
            /\ raw_posts' = << >>
            /\ sentiment_results' = << >>
            /\ written_posts' = << >>
            /\ written_results' = << >>
            /\ stats' = NoStats
            /\ spark_raised' = FALSE
            /\ kw_used' = NotSubmitted
            /\ UNCHANGED << cycle_duration, sleep_time, wake, join_deadline,
                            fanout_start, wk >>
       ELSE /\ pl_pc' = "stopping"
            /\ UNCHANGED << loopVars, fanVars, dataVars >>
    /\ UNCHANGED << mainVars, now, stopVars, interrupted, twVars >>

\* collect_data_from_all_sources, lines 35-39
SubmitTwitter ==
    /\ pl_pc = "submit_twitter"
    /\ TwBegin
    /\ fanout_start' = now
    /\ kw_used' = [kw_used EXCEPT !["twitter"] = keywords]
    /\ pl_pc' = "submit_reddit"
    /\ UNCHANGED << mainVars, now, loopVars, join_deadline, wk, joined,
                    all_posts, dataVars, stopVars, interrupted >>

\* A worker starts its call; the source answers after d seconds, or never
Launch(a, answers, d) ==
    wk' = [wk EXCEPT ![a] = [st |-> IF answers THEN "running" ELSE "hung",
                             fin |-> IF answers THEN now + d ELSE 0,
                             res |-> << >>, done_at |-> 0]]

\* collect_data_from_all_sources, lines 41-46
SubmitReddit(answers, d) ==
    /\ pl_pc = "submit_reddit"
    /\ Launch("reddit", answers, d)
    /\ kw_used' = [kw_used EXCEPT !["reddit"] = keywords]
    /\ pl_pc' = "submit_youtube"
    /\ UNCHANGED << mainVars, now, loopVars, join_deadline, fanout_start,
                    joined, all_posts, dataVars, stopVars, interrupted, twVars >>

\* collect_data_from_all_sources, lines 48-56
SubmitYoutube(answers, d) ==
    /\ pl_pc = "submit_youtube"
    /\ Launch("youtube", answers, d)
    /\ kw_used' = [kw_used EXCEPT !["youtube"] = keywords]
    /\ pl_pc' = "join_twitter"
    /\ join_deadline' = now + ResultTimeout
    /\ UNCHANGED << mainVars, now, loopVars, fanout_start, joined, all_posts,
                    dataVars, stopVars, interrupted, twVars >>

\* RedditCollector.collect_posts returns in its worker
RedditReturns(found) ==
    /\ wk["reddit"].st = "running"
    /\ now >= wk["reddit"].fin
    /\ wk' = [wk EXCEPT !["reddit"] =
                 [st |-> "done", fin |-> @.fin, res |-> CollectPosts(found, now),
                  done_at |-> now]]
    /\ UNCHANGED << mainVars, now, pl_pc, loopVars, join_deadline, fanout_start,
                    joined, all_posts, kw_used, dataVars, stopVars, interrupted,
                    twVars >>

\* YouTubeCollector.search_videos returns in its worker
YoutubeReturns(found) ==
    /\ wk["youtube"].st = "running"
    /\ now >= wk["youtube"].fin
    /\ wk' = [wk EXCEPT !["youtube"] =
                 [st |-> "done", fin |-> @.fin, res |-> SearchVideos(found, now),
                  done_at |-> now]]
    /\ UNCHANGED << mainVars, now, pl_pc, loopVars, join_deadline, fanout_start,
                    joined, all_posts, kw_used, dataVars, stopVars, interrupted,
                    twVars >>

\* collect_data_from_all_sources, lines 55-58, 62-65, 69-72: result() returns
JoinResult(a) ==
    /\ pl_pc = "join_" \o a
    /\ WorkerDone(a)
    /\ all_posts' = all_posts \o WorkerResult(a)
    /\ joined' = [joined EXCEPT ![a] = "ok"]
    /\ pl_pc' = AfterJoin(a)
    /\ join_deadline' = now + ResultTimeout
    /\ UNCHANGED << mainVars, now, loopVars, fanout_start, wk, kw_used,
                    dataVars, stopVars, interrupted, twVars >>

\* collect_data_from_all_sources, lines 59-60, 66-67, 73-74: result() raises
\* TimeoutError after 30 seconds
JoinTimeout(a) ==
    /\ pl_pc = "join_" \o a
    /\ ~WorkerDone(a)
    /\ now >= join_deadline
    /\ joined' = [joined EXCEPT ![a] = "timeout"]
    /\ pl_pc' = AfterJoin(a)
    /\ join_deadline' = now + ResultTimeout
    /\ UNCHANGED << mainVars, now, loopVars, fanout_start, wk, all_posts,
                    kw_used, dataVars, stopVars, interrupted, twVars >>

\* ThreadPoolExecutor.__exit__: shutdown(wait=True) returns once every worker
\* has returned
AllWorkersDone == \A a \in AdapterSet : WorkerDone(a)

\* A cycle that goes through its stages whatever was collected
AfterCollectAlwaysProcesses(posts) == "process"

\* run_single_cycle, lines 137 and 148: `if raw_posts:` and its else branch
AfterCollect(posts) == IF posts # << >> THEN "process" ELSE "cycle_end"

\* collect_data_from_all_sources, lines 33 and 76; run_single_cycle, lines
\* 135-137 and 148-149
ExecutorExit ==
    /\ pl_pc = "executor_exit"
    /\ AllWorkersDone
    /\ raw_posts' = all_posts
    /\ IF interrupted
       THEN pl_pc' = "stopping" /\ UNCHANGED << stage, stages_run >>
       ELSE /\ pl_pc' = AfterCollect(all_posts)
            /\ IF AfterCollect(all_posts) = "process"
               THEN UNCHANGED << stage, stages_run >>
               ELSE /\ stage' = "DONE"
                    /\ stages_run' = Append(stages_run, "DONE")
    /\ UNCHANGED << mainVars, now, cycles, cycle_start, cycle_duration,
                    sleep_time, wake, fanVars, sentiment_results,
                    written_posts, written_results, stats, spark_raised,
                    stopVars, interrupted, twVars >>

\* run_single_cycle, line 139: process_sentiment_batch; Spark raises when its
\* session was stopped, or for a reason of its own
ProcessSentiment(sparkRaises) ==
    /\ pl_pc = "process"
    /\ spark_raised' = (sparkRaises \/ spark_stops > 0)
    /\ sentiment_results' = ProcessSentimentBatch(raw_posts, spark_raised')
    /\ stage' = "SCORING"
    /\ stages_run' = stages_run \o << "NORMALIZING", "SCORING" >>
    /\ pl_pc' = "store"
    /\ UNCHANGED << mainVars, now, cycles, cycle_start, cycle_duration,
                    sleep_time, wake, fanVars, raw_posts, written_posts,
                    written_results, stats, stopVars, interrupted, twVars >>

\* MongoDBClient.insert_raw_posts: the documents written (none when
\* insert_many raises)
InsertRawPosts(posts, ok) == IF posts # << >> /\ ok THEN posts ELSE << >>

\* MongoDBClient.insert_sentiment_results
InsertSentimentResults(results, ok) ==
    IF results # << >> /\ ok THEN results ELSE << >>

\* A store_results whose failed write leaves run_single_cycle and the loop
StoreResultsAborts(rawOk, resOk) ==
    /\ pl_pc = "store"
    /\ written_posts' = InsertRawPosts(raw_posts, rawOk)
    /\ written_results' = InsertSentimentResults(sentiment_results, resOk)
    /\ stage' = "PERSISTING"
    /\ stages_run' = Append(stages_run, "PERSISTING")
    /\ pl_pc' = IF rawOk /\ resOk THEN "stats" ELSE "stopping"
    /\ UNCHANGED << mainVars, now, cycles, cycle_start, cycle_duration,
                    sleep_time, wake, fanVars, raw_posts, sentiment_results,
                    stats, spark_raised, stopVars, interrupted, twVars >>

\* run_single_cycle, line 142: store_results
StoreResults(rawOk, resOk) ==
    /\ pl_pc = "store"
    /\ written_posts' = InsertRawPosts(raw_posts, rawOk)
    /\ written_results' = InsertSentimentResults(sentiment_results, resOk)
    /\ stage' = "PERSISTING"
    /\ stages_run' = Append(stages_run, "PERSISTING")
    /\ pl_pc' = "stats"
    /\ UNCHANGED << mainVars, now, cycles, cycle_start, cycle_duration,
                    sleep_time, wake, fanVars, raw_posts, sentiment_results,
                    stats, spark_raised, stopVars, interrupted, twVars >>

\* run_single_cycle, lines 145-146
CycleStats ==
    /\ pl_pc = "stats"
    /\ stats' = AggregateSentimentStats(sentiment_results)
    /\ stage' = "DONE"
    /\ stages_run' = Append(stages_run, "DONE")
    /\ pl_pc' = "cycle_end"
    /\ UNCHANGED << mainVars, now, cycles, cycle_start, cycle_duration,
                    sleep_time, wake, fanVars, raw_posts, sentiment_results,
                    written_posts, written_results, spark_raised, stopVars,
                    interrupted, twVars >>

\* A sleep time that is not clamped at zero
SleepTimeNoClamp(interval, duration) == interval - duration

\* start_streaming, line 168
SleepTime(interval, duration) == Max(0, interval - duration)

\* start_streaming, lines 167-174
CycleEnd ==
    /\ pl_pc = "cycle_end"
    /\ cycle_duration' = now - cycle_start
    /\ sleep_time' = SleepTime(UPDATE_INTERVAL, now - cycle_start)
    /\ IF sleep_time' > 0
       THEN pl_pc' = "sleeping" /\ wake' = now + sleep_time'
       ELSE pl_pc' = "loop_check" /\ UNCHANGED wake
    /\ wk' = IdleWorkers
    /\ joined' = NotJoined
    /\ all_posts' = << >>
    /\ raw_posts' = << >>
    /\ sentiment_results' = << >>
    /\ written_posts' = << >>
    /\ written_results' = << >>
    /\ stats' = NoStats
    /\ spark_raised' = FALSE
    /\ kw_used' = NotSubmitted
    /\ join_deadline' = 0
    /\ fanout_start' = 0
    /\ TwForget
    /\ UNCHANGED << mainVars, now, cycles, stage, stages_run, cycle_start,
                    stopVars, interrupted >>

\* start_streaming, line 172: time.sleep returns
SleepEnd ==
    /\ pl_pc = "sleeping"
    /\ now >= wake
    /\ pl_pc' = "loop_check"
    /\ UNCHANGED << mainVars, now, loopVars, fanVars, dataVars, stopVars,
                    interrupted, twVars >>

-----------------------------------------------------------------------------
(* Stopping: stop_streaming and its callers *)

\* A stop that releases the resources and leaves the flag as it is
StopStreamingFlagKept ==
    /\ is_running' = is_running
    /\ spark_stops' = spark_stops + 1
    /\ db_closes' = db_closes + 1

\* RealTimePipeline.stop_streaming, lines 185-190
StopStreaming ==
    /\ is_running' = FALSE
    /\ spark_stops' = spark_stops + 1
    /\ db_closes' = db_closes + 1

\* start_streaming, line 183: the loop has ended
FinalStop ==
    /\ pl_pc = "stopping"
    /\ StopStreaming
    /\ pl_pc' = IF mode = "pipeline" THEN "returned" ELSE "exited"
    /\ UNCHANGED << mainVars, now, loopVars, fanVars, dataVars, stop_cycle,
                    interrupted, twVars >>

\* main.py, run_pipeline_only, lines 54-61: the finally clause
RunPipelineOnlyFinally ==
    /\ pl_pc = "returned"
    /\ mode = "pipeline"
    /\ IF app_pipeline = "set"
       THEN StopStreaming
       ELSE UNCHANGED << is_running, spark_stops, db_closes >>
    /\ pl_pc' = "exited"
    /\ UNCHANGED << mainVars, now, loopVars, fanVars, dataVars, stop_cycle,
                    interrupted, twVars >>

\* Ctrl+C in --mode pipeline: KeyboardInterrupt is raised in the thread that
\* runs the loop.  Inside the `with` block the executor first waits for its
\* workers; in the loop body the handler of line 176 breaks; at the loop test
\* the exception leaves start_streaming
KeyboardInterrupt ==
    /\ mode = "pipeline"
    /\ ~interrupted
    /\ pl_pc \in { "join_twitter", "join_reddit", "join_youtube",
                   "executor_exit", "process", "store", "stats", "cycle_end",
                   "sleeping", "loop_check" }
    /\ interrupted' = TRUE
    /\ pl_pc' = IF pl_pc \in FanOutPcs THEN "executor_exit"
                ELSE IF pl_pc = "loop_check" THEN "returned"
                ELSE "stopping"
    /\ UNCHANGED << mainVars, now, loopVars, fanVars, dataVars, stopVars,
                    twVars >>

\* main.py, stop_system, lines 153-161
StopSystem ==
    /\ app_is_running' = FALSE
    /\ IF app_pipeline = "set"
       THEN /\ StopStreaming
            /\ stop_cycle' = IF pl_pc \in FanOutPcs /\ stop_cycle = 0
                             THEN cycles ELSE stop_cycle
       ELSE UNCHANGED stopVars

\* main.py, _signal_handler, lines 148-151: SIGINT or SIGTERM in the full system
Signal ==
    /\ mode = "full"
    /\ main_pc = "monitor"
    /\ signals < MaxSignals
    /\ signals' = signals + 1
    /\ StopSystem
    /\ UNCHANGED << mode, twitter_faults, app_pipeline, main_pc, db_connects,
                    db_connected, envVars, now, pl_pc, loopVars, fanVars,
                    dataVars, interrupted, twVars >>

\* main.py, run_full_system, lines 89-96: _monitoring_loop returns once
\* is_running is False, and the finally clause calls stop_system
MonitoringEnds ==
    /\ mode = "full"
    /\ main_pc = "monitor"
    /\ ~app_is_running
    /\ StopSystem
    /\ main_pc' = "done"
    /\ UNCHANGED << mode, twitter_faults, app_pipeline, signals, db_connects,
                    db_connected, envVars, now, pl_pc, loopVars, fanVars,
                    dataVars, interrupted, twVars >>

\* RealTimePipeline.update_keywords, called by another thread
UpdateKeywords(new_keywords) ==
    /\ app_pipeline = "set"
    /\ keywords # new_keywords
    /\ keywords' = new_keywords
    /\ UNCHANGED << mode, twitter_faults, app_pipeline, app_is_running,
                    main_pc, signals, db_connects, db_connected, is_trained,
                    lexicon, scored, fetch, handlerVars, now, pl_pc, loopVars,
                    fanVars, dataVars,
                    stopVars, interrupted, twVars >>

-----------------------------------------------------------------------------
(* Time *)

JoinPcs == { "join_twitter", "join_reddit", "join_youtube" }

\* The adapter whose future the pipeline thread is waiting for
JoinedAdapter ==
    CASE pl_pc = "join_twitter" -> "twitter"
      [] pl_pc = "join_reddit"  -> "reddit"
      [] OTHER                  -> "youtube"

\* The instants at which something that waits is due
Pending ==
    (IF tw_pc = "sleeping" THEN { tw_wake } ELSE { })
    \cup { wk[a].fin : a \in { b \in DOMAIN wk : wk[b].st = "running" } }
    \cup (IF pl_pc \in JoinPcs THEN { join_deadline } ELSE { })
    \cup (IF pl_pc = "sleeping" THEN { wake } ELSE { })

\* The pipeline thread has no step to take at this instant
PipelineBlocked ==
    \/ pl_pc \in JoinPcs /\ ~WorkerDone(JoinedAdapter)
    \/ pl_pc = "executor_exit" /\ ~AllWorkersDone
    \/ pl_pc \in { "sleeping", "failed", "exited", "caller" }

\* Time passes to the next instant at which something is due
AdvanceTime ==
    /\ PipelineBlocked
    /\ tw_pc # "attempt"
    /\ Pending # { }
    /\ \A t \in Pending : t > now
    /\ now' = MinOf(Pending)
    /\ UNCHANGED << mainVars, pl_pc, loopVars, fanVars, dataVars, stopVars,
                    interrupted, twVars >>

-----------------------------------------------------------------------------

Next ==
    \/ \E connected \in BOOLEAN : CreatePipeline(connected)
    \/ StartStreaming
    \/ LoopCheck
    \/ SubmitTwitter
    \/ \E answers \in BOOLEAN, d \in AnswerTimes : SubmitReddit(answers, d)
    \/ \E answers \in BOOLEAN, d \in AnswerTimes : SubmitYoutube(answers, d)
    \/ TwAttemptOk
    \/ \E e \in ApiErrors, got \in 0..Len(TweetFeed) : TwAttemptFail(e, got)
    \/ TwWake
    \/ \E found \in RedditFinds : RedditReturns(found)
    \/ \E found \in YouTubeFinds : YoutubeReturns(found)
    \/ \E a \in AdapterSet : JoinResult(a)
    \/ \E a \in AdapterSet : JoinTimeout(a)
    \/ ExecutorExit
    \/ ProcessSentiment(FALSE)
    \/ \E rawOk \in BOOLEAN, resOk \in BOOLEAN : StoreResults(rawOk, resOk)
    \/ CycleStats
    \/ CycleEnd
    \/ SleepEnd
    \/ FinalStop
    \/ RunPipelineOnlyFinally
    \/ KeyboardInterrupt
    \/ Signal
    \/ MonitoringEnds
    \/ AdvanceTime

Spec == Init /\ [][Next]_vars

-----------------------------------------------------------------------------
(* collect_tweets called on its own, MaxCalls times in a row *)

\* collect_tweets, line 18: a call, once the previous one has returned
CallCollectTweets ==
    /\ pl_pc = "caller"
    /\ tw_pc \in { "idle", "done" }
    /\ tw_calls < MaxCalls
    /\ TwBegin
    /\ UNCHANGED << mainVars, now, pl_pc, loopVars, fanVars, dataVars,
                    stopVars, interrupted >>

NextFetch ==
    \/ CallCollectTweets
    \/ TwAttemptOk
    \/ \E e \in ApiErrors, got \in 0..Len(TweetFeed) : TwAttemptFail(e, got)
    \/ TwWake
    \/ AdvanceTime

SpecFetch == InitFetch /\ [][NextFetch]_vars

-----------------------------------------------------------------------------
(* The pipeline with sources that answer at once, and a thread that calls    *)
(* update_keywords at any moment                                             *)

InitKeywords ==
    /\ mode = "pipeline"
    /\ twitter_faults = { }
    /\ app_is_running = FALSE
    /\ main_pc = "none"
    /\ pl_pc = "create"
    /\ lexicon = DefaultLexicon
    /\ is_trained = FALSE
    /\ InitCommon

NextKeywords ==
    \/ CreatePipeline(TRUE)
    \/ StartStreaming
    \/ LoopCheck
    \/ SubmitTwitter
    \/ SubmitReddit(TRUE, 0)
    \/ SubmitYoutube(TRUE, 0)
    \/ TwAttemptOk
    \/ \E found \in RedditFinds : RedditReturns(found)
    \/ \E found \in YouTubeFinds : YoutubeReturns(found)
    \/ \E a \in AdapterSet : JoinResult(a)
    \/ ExecutorExit
    \/ ProcessSentiment(FALSE)
    \/ StoreResults(TRUE, TRUE)
    \/ CycleStats
    \/ CycleEnd
    \/ SleepEnd
    \/ AdvanceTime
    \/ \E new_keywords \in NewKeywords \cup { DEFAULT_KEYWORDS } :
           UpdateKeywords(new_keywords)

SpecKeywords == InitKeywords /\ [][NextKeywords]_vars

-----------------------------------------------------------------------------
(* The loop without a stop request: sources that answer at once or fail,     *)
(* a Twitter API that refuses the credentials, Spark and storage that may    *)
(* fail                                                                      *)

\* What the searches of one collect_posts call find
CycleRedditFinds ==
    { << >>, << "r1", "r5", "r6" >>, << "r2", "r3", "r4" >>, << "r1", "r1" >> }

\* What one search_videos call finds
CycleYouTubeFinds == { << >>, << "y1" >>, << "y1", "y2", "y3" >> }

InitCycle ==
    /\ mode = "pipeline"
    /\ twitter_faults = { e \in ApiErrors : e.type = "Unauthorized" }
    /\ app_is_running = FALSE
    /\ main_pc = "none"
    /\ pl_pc = "create"
    /\ lexicon = DefaultLexicon
    /\ is_trained = FALSE
    /\ InitCommon

NextCycle ==
    \/ CreatePipeline(TRUE)
    \/ StartStreaming
    \/ LoopCheck
    \/ SubmitTwitter
    \/ SubmitReddit(TRUE, 0)
    \/ SubmitYoutube(TRUE, 0)
    \/ TwAttemptOk
    \/ \E e \in ApiErrors : TwAttemptFail(e, 0)
    \/ TwWake
    \/ \E found \in CycleRedditFinds : RedditReturns(found)
    \/ \E found \in CycleYouTubeFinds : YoutubeReturns(found)
    \/ \E a \in AdapterSet : JoinResult(a)
    \/ \E a \in AdapterSet : JoinTimeout(a)
    \/ ExecutorExit
    \/ \E sparkRaises \in BOOLEAN : ProcessSentiment(sparkRaises)
    \/ \E rawOk \in BOOLEAN, resOk \in BOOLEAN : StoreResults(rawOk, resOk)
    \/ CycleStats
    \/ CycleEnd
    \/ SleepEnd
    \/ AdvanceTime

SpecCycle == InitCycle /\ [][NextCycle]_vars

-----------------------------------------------------------------------------
(* A caller of SentimentAnalyzer: a model is trained or loaded at some       *)
(* moment, and predict_sentiment is called MaxScored times                   *)

ScoreTexts == { "good day", "bad day" }

\* Polarities and subjectivities TextBlob may answer for a text
Polarities == { -100, -11, -10, -9, 0, 9, 10, 11, 100 }
Subjectivities == { 0, 50 }

InitScore ==
    /\ mode = "score"
    /\ twitter_faults = { }
    /\ app_is_running = FALSE
    /\ main_pc = "none"
    /\ pl_pc = "caller"
    /\ lexicon \in [ScoreTexts ->
                       [polarity : Polarities, subjectivity : Subjectivities]]
    /\ is_trained = FALSE
    /\ InitCommon

\* train_model, lines 51-74, and load_model, lines 145-152: is_trained is set
\* when nothing raised
TrainModel(ok) ==
    /\ mode = "score"
    /\ ~is_trained
    /\ is_trained' = ok
    /\ UNCHANGED << mode, twitter_faults, app_pipeline, app_is_running,
                    main_pc, signals, db_connects, db_connected, keywords,
                    lexicon, scored, fetch, handlerVars, now, pl_pc, loopVars,
                    fanVars, dataVars,
                    stopVars, interrupted, twVars >>

\* A call of predict_sentiment; m is what the trained model does with the text
PredictSentimentCall(text, m) ==
    /\ mode = "score"
    /\ Len(scored) < MaxScored
    /\ ~is_trained => m = NoModel
    /\ scored' = Append(scored,
                        [text |-> text, trained |-> is_trained, model |-> m,
                         out |-> PredictSentiment(text, is_trained, m)])
    /\ UNCHANGED << mode, twitter_faults, app_pipeline, app_is_running,
                    main_pc, signals, db_connects, db_connected, keywords,
                    is_trained, lexicon, fetch, handlerVars, now, pl_pc,
                    loopVars, fanVars, dataVars, stopVars, interrupted,
                    twVars >>

NextScore ==
    \/ \E ok \in BOOLEAN : TrainModel(ok)
    \/ \E text \in ScoreTexts, m \in ModelAnswers : PredictSentimentCall(text, m)

SpecScore == InitScore /\ [][NextScore]_vars

-----------------------------------------------------------------------------
(* Properties *)

AllRateLimited == \A i \in 1..Len(tw_errs) : IsRateLimit(tw_errs[i])

FullStages == << "COLLECTING", "NORMALIZING", "SCORING", "PERSISTING", "DONE" >>

\* C1: a call of collect_tweets makes at most 3 attempts whatever the errors;
\* after a failure it either waits for the next attempt or has returned, and
\* when all 3 attempts failed it has returned the empty list (also when
\* tweets were gathered before the errors).
C1_AtMostThreeAttempts ==
    /\ api_calls <= max_retries
    /\ Len(tw_errs) <= max_retries
    /\ tw_pc \in { "idle", "attempt", "sleeping", "done" }
    /\ Len(tw_errs) = max_retries => tw_pc = "done" /\ tw_result = << >>
    /\ tw_pc = "done" /\ tw_result # << >> => Len(tw_errs) < max_retries

C1_Witness ==
    /\ tw_pc = "done"
    /\ Len(tw_errs) = max_retries
    /\ api_calls = max_retries
    /\ tweets_data # << >>
    /\ tw_result = << >>
    /\ ~AllRateLimited

\* C2: when every attempt of a call so far was rate-limited, the waits are 60
\* and then 120 seconds; the third failure is followed by no wait and no
\* fourth attempt, and the call returns the empty list.
C2_RateLimitWaits ==
    AllRateLimited =>
        /\ Len(tw_errs) = 0 => sleeps = << >>
        /\ Len(tw_errs) = 1 => sleeps = << 60 >>
        /\ Len(tw_errs) >= 2 => sleeps = << 60, 120 >>
        /\ Len(tw_errs) = 3 =>
               tw_pc = "done" /\ tw_result = << >> /\ api_calls = 3
        /\ api_calls <= 3

C2_Witness ==
    /\ AllRateLimited
    /\ Len(tw_errs) = 3
    /\ sleeps = << 60, 120 >>
    /\ tw_pc = "done"
    /\ now >= 180

\* C3: an error whose message contains "unauthorized", "forbidden" or
\* "invalid credentials" is never followed by a wait or by another attempt:
\* the call has ended with it (after exactly one attempt and no wait when it
\* is the first failure), and _should_retry answers False for it.
C3_NonRetryableEndsAtOnce ==
    \A i \in 1..Len(tw_errs) :
        IsNonRetryable(tw_errs[i]) =>
            /\ ~ShouldRetry(tw_errs[i].msg, i)
            /\ Len(tw_errs) = i
            /\ api_calls = i
            /\ Len(sleeps) = i - 1
            /\ tw_pc = "done"

\* C4: once the waits for the three futures are over, the pipeline thread is
\* not held back by an adapter that has not returned: it leaves
\* collect_data_from_all_sources and the cycle goes on.
C4_SlowAdapterDoesNotBlock ==
    pl_pc = "executor_exit" /\ ~interrupted => ENABLED ExecutorExit

\* C5: an adapter whose fetch returned more than 30 seconds after the fan-out
\* started contributes no posts to the cycle.
C5_SameBoundForEveryAdapter ==
    \A a \in AdapterSet :
        joined[a] = "ok" /\ WorkerResult(a) # << >> =>
            WorkerDoneAt(a) - fanout_start <= ResultTimeout

\* C6: no two posts written to storage in one cycle have the same id.
C6_OnePostPerId ==
    \A i, j \in 1..Len(written_posts) :
        written_posts[i].id = written_posts[j].id => i = j

\* C7: every sentiment result written to storage in a cycle has the id of a
\* post written to storage in the same cycle.
C7_NoResultWithoutPost ==
    \A i \in 1..Len(written_results) :
        \E j \in 1..Len(written_posts) :
            written_posts[j].id = written_results[i].post_id

\* C8: after stop_streaming was called by another thread while a cycle's
\* fan-out was in flight, that cycle goes through all its remaining stages
\* (scoring and persistence when posts were collected), the loop test that
\* follows finds is_running False, the loop is left only from that test, and
\* no further cycle is started.
C8_StopDuringFanOut ==
    stop_cycle > 0 =>
        /\ cycles = stop_cycle
        /\ ~is_running
        /\ pl_pc \in { "cycle_end", "sleeping", "loop_check", "stopping",
                       "exited" } => stage = "DONE"
        /\ pl_pc = "cycle_end" /\ raw_posts # << >> => stages_run = FullStages
        /\ stage = "DONE" =>
               stages_run \in { FullStages, << "COLLECTING", "DONE" >> }

C8_Witness ==
    /\ stop_cycle = 1
    /\ cycles = 1
    /\ pl_pc = "exited"
    /\ stages_run = FullStages

\* C9: when the run is over, stop_spark and close_connection have each been
\* called exactly once, and never more than once before.
RunOver == pl_pc = "exited" /\ (mode = "full" => main_pc = "done")

C9_ReleasedExactlyOnce ==
    /\ spark_stops <= 1
    /\ db_closes <= 1
    /\ RunOver => spark_stops = 1 /\ db_closes = 1

\* C10: the sleep after a cycle is never negative; it is 0 when the cycle took
\* at least the interval and interval - elapsed otherwise; the loop test of
\* the next cycle is reached exactly when that sleep is over (at once after an
\* overrun), and the thread sleeps only for a positive time.
CycleHasEnded ==
    cycles >= 2 \/ pl_pc = "sleeping" \/ (pl_pc = "loop_check" /\ cycles >= 1)

C10_SleepIsClamped ==
    /\ sleep_time >= 0
    /\ CycleHasEnded /\ cycle_duration >= UPDATE_INTERVAL => sleep_time = 0
    /\ CycleHasEnded /\ cycle_duration < UPDATE_INTERVAL =>
           sleep_time = UPDATE_INTERVAL - cycle_duration
    /\ pl_pc = "sleeping" =>
           sleep_time > 0 /\ wake = cycle_start + cycle_duration + sleep_time
    /\ pl_pc = "loop_check" =>
           now = cycle_start + cycle_duration + sleep_time

C10_Witness ==
    /\ cycles = 2
    /\ pl_pc = "submit_twitter"
    /\ cycle_duration > UPDATE_INTERVAL
    /\ sleep_time = 0
    /\ cycle_start = cycle_duration

\* C11: within one cycle the three adapters are invoked with the same
\* keywords, also when update_keywords runs during the fan-out.
C11_SameKeywordsInCycle ==
    \A a, b \in AdapterSet :
        kw_used[a] # << >> /\ kw_used[b] # << >> => kw_used[a] = kw_used[b]

\* C13: MongoDBClient.connect is called at most once, and when it failed the
\* construction of the pipeline has failed: app.pipeline stays None,
\* start_streaming is never entered and no cycle is run.
C13_ConnectFailureIsFatal ==
    /\ db_connects <= 1
    /\ pl_pc # "create" => db_connects = 1
    /\ db_connects = 1 /\ ~db_connected =>
           /\ pl_pc = "failed"
           /\ app_pipeline = "none"
           /\ ~is_running
           /\ cycles = 0
           /\ stage = "IDLE"
           /\ tw_calls = 0

C13_Witness ==
    /\ db_connects = 1
    /\ ~db_connected
    /\ pl_pc = "failed"
    /\ mode = "full"
    /\ main_pc = "done"
    /\ signals = 1

\* C20: inside a call of collect_tweets the wait that follows an error other
\* than a rate limit is at most 30 seconds, also after rate limits have
\* doubled the backoff.
C20_OtherErrorsWaitAtMost30 ==
    /\ Len(sleeps) <= Len(tw_errs)
    /\ \A i \in 1..Len(sleeps) :
           ~IsRateLimit(tw_errs[i]) => sleeps[i] <= OtherErrorWaitCap

C20_Witness ==
    /\ Len(tw_errs) = 2
    /\ IsRateLimit(tw_errs[1])
    /\ ~IsRateLimit(tw_errs[2])
    /\ backoff_time = 2 * InitialBackoff
    /\ sleeps = << InitialBackoff, OtherErrorWaitCap >>

\* The cycle is past process_sentiment_batch and Spark did not raise
Scored == pl_pc \in { "store", "stats", "cycle_end" } /\ ~spark_raised

\* Is there a result for this collected record with this text
HasResult(post, text) ==
    \E j \in 1..Len(sentiment_results) :
        /\ sentiment_results[j].post_id = post.id
        /\ sentiment_results[j].text = text

\* C12: a failed fetch, a scoring failure or a failed write never takes the
\* thread out of the cycle or out of the loop: the cycle is left only at its
\* end, with stage DONE after every stage that was due; the loop is left only
\* after a stop request or a KeyboardInterrupt; and the loop test, while
\* is_running holds, starts the next cycle.
C12_FailuresDoNotAbort ==
    [][ /\ pl_pc' = "cycle_end" /\ pl_pc # "cycle_end" =>
               /\ stage' = "DONE"
               /\ stages_run' \in { FullStages, << "COLLECTING", "DONE" >> }
        /\ pl_pc' \in { "stopping", "returned", "exited", "failed" }
             /\ pl_pc \notin { "create", "stopping", "returned", "exited",
                                "failed" } =>
               interrupted' \/ (pl_pc = "loop_check" /\ ~is_running)
        /\ pl_pc = "loop_check" /\ is_running /\ pl_pc' # "loop_check"
             /\ ~interrupted' =>
               pl_pc' = "submit_twitter" /\ cycles' = cycles + 1
      ]_vars

C12_Witness ==
    /\ cycles = 2
    /\ cycle_duration >= 60
    /\ pl_pc = "cycle_end"
    /\ stage = "DONE"
    /\ is_running
    /\ joined["twitter"] = "timeout"
    /\ Len(tw_errs) = max_retries
    /\ spark_raised
    /\ raw_posts # << >>
    /\ written_posts = << >>

\* Normalized text of a collected record: text, else title, else description
NormalizedText(post) == ScoredText(post)

\* The adapter returned 3 posts with distinct ids and texts of at least the
\* minimum length
ReturnedThreeValid(a) ==
    LET res == WorkerResult(a)
    IN /\ Len(res) = 3
       /\ \A i, j \in 1..3 : res[i].id = res[j].id => i = j
       /\ \A i \in 1..3 : /\ Truthy(NormalizedText(res[i]))
                           /\ Len(NormalizedText(res[i])) >= MinTextLength

\* The adapter failed: it returned nothing (collect_tweets after errors that
\* were all non-retryable)
FailedNonRetryable(a) ==
    /\ WorkerDone(a)
    /\ WorkerResult(a) = << >>
    /\ a = "twitter" =>
           /\ tw_errs # << >>
           /\ \A i \in 1..Len(tw_errs) : IsNonRetryable(tw_errs[i])

\* C14: when one adapter returned 3 valid posts and the two others failed
\* with non-retryable errors, the cycle completes with 3 posts and 3
\* sentiment results handed to store_results and with stats.total = 3.
C14_ThreePostsEndToEnd ==
    \A a \in AdapterSet :
        /\ pl_pc = "cycle_end"
        /\ ~spark_raised
        /\ ReturnedThreeValid(a)
        /\ \A b \in AdapterSet \ { a } : FailedNonRetryable(b)
        => /\ stage = "DONE"
           /\ Len(raw_posts) = 3
           /\ Len(sentiment_results) = 3
           /\ stats.total = 3

C16_MinimumLengthFilter ==
    Scored =>
        \A i \in 1..Len(raw_posts) :
            LET text == Get(raw_posts[i], "text")
            IN (Truthy(text) /\ Len(text) >= MinTextLength)
                   <=> HasResult(raw_posts[i], text)

\* C17: a collected record without text and with a title of at least 10
\* characters has a sentiment result whose text is the title.
C17_TextFallsBackToTitle ==
    Scored =>
        \A i \in 1..Len(raw_posts) :
            LET post == raw_posts[i]
            IN /\ ~Truthy(Get(post, "text"))
               /\ Truthy(Get(post, "title"))
               /\ Len(Get(post, "title")) >= MinTextLength
               => HasResult(post, Get(post, "title"))

\* C18: textblob_sentiment gives positive for a polarity above 0.1, negative
\* below -0.1 and neutral otherwise (at exactly 0.1 and -0.1 too); the label
\* is one of the three, the confidence is |polarity| and lies in [0, 1], and
\* the same text scored twice gives the same output.
C18_HeuristicThresholds ==
    /\ \A i \in 1..Len(scored) :
           ~scored[i].trained =>
               LET polarity == lexicon[scored[i].text].polarity
                   out == scored[i].out
               IN /\ out.polarity = polarity
                  /\ polarity > 10 => out.label = "positive"
                  /\ polarity < -10 => out.label = "negative"
                  /\ polarity >= -10 /\ polarity <= 10 => out.label = "neutral"
                  /\ out.label \in { "positive", "neutral", "negative" }
                  /\ out.confidence = Abs(polarity)
                  /\ out.confidence >= 0 /\ out.confidence <= 100
    /\ \A i, j \in 1..Len(scored) :
           /\ ~scored[i].trained
           /\ ~scored[j].trained
           /\ scored[i].text = scored[j].text
           => scored[i].out = scored[j].out

C18_Witness ==
    /\ Len(scored) = 2
    /\ ~scored[1].trained /\ ~scored[2].trained
    /\ scored[1].text = scored[2].text
    /\ lexicon[scored[1].text].polarity = 10
    /\ scored[2].out.label = "neutral"
    /\ \E t \in ScoreTexts : lexicon[t].polarity = -10

\* C19: predict_sentiment returns a result with a label of the three for
\* every text and never raises; without a trained model, and whenever the
\* trained path raises, the result is that of textblob_sentiment.
C19_ScorerErrorNeverSurfaces ==
    \A i \in 1..Len(scored) :
        /\ scored[i].out # Raised
        /\ scored[i].out.label \in { "positive", "neutral", "negative" }
        /\ ~scored[i].trained \/ TrainedPathRaises(scored[i].model) =>
               scored[i].out = TextblobSentiment(scored[i].text)

C19_Witness ==
    /\ Len(scored) = 2
    /\ ~scored[1].trained
    /\ scored[2].trained
    /\ scored[2].model.raises
    /\ scored[2].out = TextblobSentiment(scored[2].text)

-----------------------------------------------------------------------------
(* Stopping and the cycle in flight *)

\* Positions of the pipeline thread between the start of collection and the
\* end of persistence
InFlightPcs ==
    { "submit_twitter", "submit_reddit", "submit_youtube", "join_twitter",
      "join_reddit", "join_youtube", "executor_exit", "process", "store" }

\* C21: stop_spark and close_connection are never invoked while a cycle is
\* between the start of collection and the end of persistence, so no stage of
\* a cycle runs with the Spark session stopped or the storage connection
\* closed.
C21_ReleasedOnlyAfterCycle ==
    pl_pc \in InFlightPcs => spark_stops = 0 /\ db_closes = 0

\* C22: the stages of a cycle occur in the order COLLECTING, NORMALIZING,
\* SCORING, PERSISTING, DONE with no step back; normalization, scoring and
\* persistence start only after every adapter future has been joined
\* (returned or timed out), and persistence only after scoring has ended.
C22_StagesInOrder ==
    /\ \/ stages_run = << "COLLECTING", "DONE" >>
       \/ /\ Len(stages_run) <= Len(FullStages)
          /\ stages_run = SubSeq(FullStages, 1, Len(stages_run))
    /\ stages_run # << >> => stage = stages_run[Len(stages_run)]
    /\ \/ pl_pc \in { "process", "store", "stats" }
       \/ stage \in { "NORMALIZING", "SCORING", "PERSISTING" }
       => \A a \in AdapterSet : joined[a] \in { "ok", "timeout" }
    /\ pl_pc = "process" => stage = "COLLECTING" /\ sentiment_results = << >>
    /\ pl_pc = "store" =>
           /\ stage = "SCORING"
           /\ written_posts = << >> /\ written_results = << >>
    /\ pl_pc = "stats" => stage = "PERSISTING"
    /\ stage = "COLLECTING" =>
           /\ sentiment_results = << >>
           /\ written_posts = << >> /\ written_results = << >>

C22_Witness ==
    /\ pl_pc = "store"
    /\ joined["twitter"] = "timeout"
    /\ joined["reddit"] = "ok"
    /\ joined["youtube"] = "ok"
    /\ stages_run = << "COLLECTING", "NORMALIZING", "SCORING" >>
    /\ sentiment_results # << >>

\* C29: a collect_tweets call whose first attempt was rate limited and whose
\* retry succeeded has its tweets among the posts collected in that cycle.
C29_RetriedFetchContributes ==
    /\ pl_pc \in { "process", "store", "stats", "cycle_end" }
    /\ tw_pc = "done"
    /\ Len(tw_errs) = 1 /\ IsRateLimit(tw_errs[1])
    /\ tw_result # << >>
    => \A i \in 1..Len(tw_result) :
           \E j \in 1..Len(raw_posts) :
               /\ raw_posts[j].platform = "twitter"
               /\ raw_posts[j].id = tw_result[i].id

\* C30: once stop_streaming has been called, the loop test that follows
\* finds is_running False, so that no cycle is started after the request.
C30_StopNeverLost ==
    spark_stops > 0 /\ pl_pc = "loop_check" => ~is_running

\* C23: a cycle in which no post was collected calls neither the scorer nor
\* the storage (insert_raw_posts, insert_sentiment_results), computes no
\* statistics and ends normally; the stages after collection are entered only
\* with posts.
C23_EmptyCycleIsNoOp ==
    /\ pl_pc \in { "process", "store", "stats" } => raw_posts # << >>
    /\ pl_pc = "cycle_end" /\ raw_posts = << >> =>
           /\ stages_run = << "COLLECTING", "DONE" >>
           /\ stage = "DONE"
           /\ sentiment_results = << >>
           /\ written_posts = << >>
           /\ written_results = << >>
           /\ stats = NoStats
           /\ ~spark_raised
           /\ ~interrupted
           /\ is_running

\* The second cycle ends with nothing collected: Reddit and YouTube returned
\* empty lists and the Twitter call failed
C23_Witness ==
    /\ cycles = 2
    /\ pl_pc = "cycle_end"
    /\ raw_posts = << >>
    /\ joined["reddit"] = "ok" /\ joined["youtube"] = "ok"
    /\ tw_pc = "done" /\ tw_result = << >>
    /\ stages_run = << "COLLECTING", "DONE" >>

-----------------------------------------------------------------------------
(* collect_tweets: what a call returns and what it starts with *)

\* C24: a collect_tweets call that has gathered tweets and then fails for
\* good (the last allowed attempt raised) returns the tweets gathered so far.
C24_PartialSuccessKept ==
    /\ tw_pc = "done"
    /\ Len(tw_errs) = api_calls
    /\ tweets_data # << >>
    => tw_result = tweets_data

\* C27: every collect_tweets call starts with attempt 0, no wait made and a
\* backoff of 60 seconds, whatever the calls before it went through: its
\* first wait is 60 seconds for a rate limit and 30 for another error, and
\* it makes at most 3 attempts.
C27_RetryStatePerCall ==
    /\ tw_pc = "attempt" /\ api_calls = 0 =>
           /\ attempt = 0
           /\ backoff_time = InitialBackoff
           /\ sleeps = << >>
           /\ tw_errs = << >>
    /\ sleeps # << >> => sleeps[1] = WaitFor(tw_errs[1], InitialBackoff)
    /\ tw_pc = "attempt" => attempt = api_calls
    /\ api_calls <= max_retries

\* The first call was rate limited three times (waits of 60 and 120 seconds);
\* the second call waits 60 seconds after its first rate limit
C27_Witness ==
    /\ tw_calls = 2
    /\ now = InitialBackoff + 2 * InitialBackoff
    /\ tw_pc = "sleeping"
    /\ sleeps = << InitialBackoff >>
    /\ IsRateLimit(tw_errs[1])

\* C28: the list returned by collect_tweets holds each tweet at most once.
C28_EachTweetOnce ==
    \A i, j \in 1..Len(tw_result) :
        tw_result[i].id = tw_result[j].id => i = j

-----------------------------------------------------------------------------
(* One fetch call of each collector, by the number of items it asks its API *)
(* for and the number of items it returns                                   *)

\* collect_data_from_all_sources, lines 38, 45 and 51
TwitterMaxResults == 50
RedditLimit == 50
YouTubeMaxResults == 20

\* collect_tweets, line 30: tweets asked for by one request
PageSize == 10

\* collect_data_from_all_sources, line 43
Subreddits == << "python", "MachineLearning", "artificial" >>

\* The limits, keyword lists and subreddit lists a fetch call is given
LimitValues == { TwitterMaxResults, RedditLimit, YouTubeMaxResults }
KeywordLists == { DEFAULT_KEYWORDS } \cup NewKeywords
SubredditLists == { << "python" >>, Subreddits }

\* The number of items a search of the source can deliver
Available == { 0, 7, 16, 60 }

\* A search asked for n items delivers at most n
Delivered(avail, n) == Min(avail, n)

\* collect_posts, line 25: the limit of the search of one keyword in one
\* subreddit
PerSearch(limit, kws) == limit \div Len(kws)

\* collect_posts, lines 20-43: one search for every subreddit and keyword
CollectPostsCall(subreddits, kws, limit, avail) ==
    /\ mode = "limit"
    /\ fetch' = [adapter |-> "reddit", limit |-> limit, keywords |-> kws,
                 subreddits |-> subreddits, available |-> avail,
                 requested |->
                     Len(subreddits) * Len(kws) * PerSearch(limit, kws),
                 returned |->
                     Len(subreddits) * Len(kws)
                         * Delivered(avail, PerSearch(limit, kws))]
    /\ UNCHANGED << mode, twitter_faults, app_pipeline, app_is_running,
                    main_pc, signals, db_connects, db_connected, keywords,
                    is_trained, lexicon, scored, handlerVars, now, pl_pc,
                    loopVars, fanVars, dataVars, stopVars, interrupted,
                    twVars >>

\* search_videos, lines 16-37: one search with maxResults=max_results
SearchVideosCall(kws, max_results, avail) ==
    /\ mode = "limit"
    /\ fetch' = [adapter |-> "youtube", limit |-> max_results,
                 keywords |-> kws, available |-> avail,
                 requested |-> max_results,
                 returned |-> Delivered(avail, max_results)]
    /\ UNCHANGED << mode, twitter_faults, app_pipeline, app_is_running,
                    main_pc, signals, db_connects, db_connected, keywords,
                    is_trained, lexicon, scored, handlerVars, now, pl_pc,
                    loopVars, fanVars, dataVars, stopVars, interrupted,
                    twVars >>

\* collect_tweets, line 30: max_results of one request
TweetsPerRequest(max_results) == Min(max_results, PageSize)

\* collect_tweets, lines 20-68, every tweet being English: each of `failed`
\* attempts is delivered `got` tweets in whole requests and raises at the
\* request after them; the attempt that follows, if one is left, iterates
\* flatten(limit=max_results) to its end; after max_retries failures the call
\* returns []
CollectTweetsCall(kws, max_results, avail, failed, got) ==
    /\ mode = "limit"
    /\ got <= avail
    /\ got < max_results
    /\ got % TweetsPerRequest(max_results) = 0
    /\ failed = 0 => got = 0
    /\ fetch' = [adapter |-> "twitter", limit |-> max_results,
                 keywords |-> kws, available |-> avail, failed |-> failed,
                 got |-> got,
                 requested |->
                     failed * (got + TweetsPerRequest(max_results))
                     + (IF failed < max_retries THEN max_results ELSE 0),
                 returned |->
                     IF failed < max_retries
                     THEN failed * got + Delivered(avail, max_results)
                     ELSE 0]
    /\ UNCHANGED << mode, twitter_faults, app_pipeline, app_is_running,
                    main_pc, signals, db_connects, db_connected, keywords,
                    is_trained, lexicon, scored, handlerVars, now, pl_pc,
                    loopVars, fanVars, dataVars, stopVars, interrupted,
                    twVars >>

InitLimit ==
    /\ mode = "limit"
    /\ twitter_faults = ApiErrors
    /\ app_is_running = FALSE
    /\ main_pc = "none"
    /\ pl_pc = "caller"
    /\ lexicon = DefaultLexicon
    /\ is_trained = FALSE
    /\ InitCommon

NextLimit ==
    \/ \E subreddits \in SubredditLists, kws \in KeywordLists,
          limit \in LimitValues, avail \in Available :
           CollectPostsCall(subreddits, kws, limit, avail)
    \/ \E kws \in KeywordLists, max_results \in LimitValues,
          avail \in Available :
           SearchVideosCall(kws, max_results, avail)
    \/ \E kws \in KeywordLists, max_results \in LimitValues,
          avail \in Available, failed \in 0..max_retries,
          got \in { 0, PageSize, 2 * PageSize } :
           CollectTweetsCall(kws, max_results, avail, failed, got)

SpecLimit == InitLimit /\ [][NextLimit]_vars

\* C25: one fetch call of any collector, whatever its keywords and
\* subreddits, asks its API for at most `limit` items in total and returns
\* at most `limit` items.
C25_LimitBoundsFetch ==
    fetch # NoFetch =>
        /\ fetch.requested <= fetch.limit
        /\ fetch.returned <= fetch.limit

-----------------------------------------------------------------------------
(* utils/error_handler.py: the ErrorHandler on its own *)

\* Calls of the entry points between two resets
MaxHandled == 3

\* get_error_summary, line 93: the age below which an error is recent
SummaryWindow == 3600

\* d.get(k, default)
GetOr(d, k, default) == IF k \in DOMAIN d THEN d[k] ELSE default

\* d[k] = v
DictPut(d, k, v) == [x \in DOMAIN d \cup { k } |-> IF x = k THEN v ELSE d[x]]

\* handle_api_error, line 15: f"{api_name}_{type(error).__name__}"
ErrorKey(name, e) == name \o "_" \o e.type

\* What the entry points are called with
ApiNames == { "twitter" }
Operations == { "insert_raw_posts" }
StageNames == { "pipeline_startup" }
DatabaseErrors ==
    { [type |-> "ServerSelectionTimeoutError", msg |-> "No servers found"] }
ProcessingErrors == { [type |-> "ValueError", msg |-> "Invalid value"] }

\* handle_api_error, lines 13-36
HandleApiError(api_name, e) ==
    LET error_key == ErrorKey(api_name, e)
        count == GetOr(error_counts, error_key, 0) + 1
    IN  /\ mode = "errors"
        /\ Len(handled) < MaxHandled
        /\ error_counts' = DictPut(error_counts, error_key, count)
        /\ last_errors' = DictPut(last_errors, error_key,
                                  [timestamp |-> now, error |-> e.msg])
        /\ handled' = Append(handled,
               [entry |-> "handle_api_error", category |-> error_key,
                at |-> now,
                result |-> [success |-> FALSE, error |-> e.msg,
                            api |-> api_name,
                            should_retry |-> ShouldRetry(e.msg, count),
                            error_count |-> count]])
        /\ UNCHANGED << mode, twitter_faults, app_pipeline, app_is_running,
                        main_pc, signals, db_connects, db_connected, keywords,
                        is_trained, lexicon, scored, fetch, now, pl_pc,
                        loopVars, fanVars, dataVars, stopVars, interrupted,
                        twVars >>

\* handle_database_error, lines 38-48
HandleDatabaseError(operation, e) ==
    /\ mode = "errors"
    /\ Len(handled) < MaxHandled
    /\ handled' = Append(handled,
           [entry |-> "handle_database_error",
            category |-> ErrorKey(operation, e), at |-> now,
            result |-> [success |-> FALSE, error |-> e.msg,
                        operation |-> operation, timestamp |-> now]])
    /\ UNCHANGED << mode, twitter_faults, app_pipeline, app_is_running,
                    main_pc, signals, db_connects, db_connected, keywords,
                    is_trained, lexicon, scored, fetch, error_counts,
                    last_errors, now, pl_pc, loopVars, fanVars, dataVars,
                    stopVars, interrupted, twVars >>

\* handle_processing_error, lines 50-63, as main.py calls it (no data_context)
HandleProcessingError(stage_name, e) ==
    /\ mode = "errors"
    /\ Len(handled) < MaxHandled
    /\ handled' = Append(handled,
           [entry |-> "handle_processing_error",
            category |-> ErrorKey(stage_name, e), at |-> now,
            result |-> [success |-> FALSE, error |-> e.msg,
                        stage |-> stage_name, data_context |-> None,
                        timestamp |-> now]])
    /\ UNCHANGED << mode, twitter_faults, app_pipeline, app_is_running,
                    main_pc, signals, db_connects, db_connected, keywords,
                    is_trained, lexicon, scored, fetch, error_counts,
                    last_errors, now, pl_pc, loopVars, fanVars, dataVars,
                    stopVars, interrupted, twVars >>

\* reset_error_counts, lines 102-105
ResetErrorCounts ==
    /\ mode = "errors"
    /\ error_counts' = EmptyDict
    /\ last_errors' = EmptyDict
    /\ handled' = << >>
    /\ UNCHANGED << mode, twitter_faults, app_pipeline, app_is_running,
                    main_pc, signals, db_connects, db_connected, keywords,
                    is_trained, lexicon, scored, fetch, now, pl_pc, loopVars,
                    fanVars, dataVars, stopVars, interrupted, twVars >>

\* time.time() between two calls: half an hour passes
ClockTick ==
    /\ mode = "errors"
    /\ now < SummaryWindow
    /\ now' = now + SummaryWindow \div 2
    /\ UNCHANGED << mainVars, pl_pc, loopVars, fanVars, dataVars, stopVars,
                    interrupted, twVars >>

\* get_error_summary, lines 87-100
GetErrorSummary ==
    [error_key \in { k \in DOMAIN last_errors :
                       now - last_errors[k].timestamp < SummaryWindow } |->
        [count |-> GetOr(error_counts, error_key, 0),
         last_occurrence |-> last_errors[error_key].timestamp,
         error_message |-> last_errors[error_key].error]]

InitErrors ==
    /\ mode = "errors"
    /\ twitter_faults = { }
    /\ app_is_running = FALSE
    /\ main_pc = "none"
    /\ pl_pc = "caller"
    /\ lexicon = DefaultLexicon
    /\ is_trained = FALSE
    /\ InitCommon

NextErrors ==
    \/ \E api_name \in ApiNames, e \in ApiErrors : HandleApiError(api_name, e)
    \/ \E operation \in Operations, e \in DatabaseErrors :
           HandleDatabaseError(operation, e)
    \/ \E stage_name \in StageNames, e \in ProcessingErrors :
           HandleProcessingError(stage_name, e)
    \/ ResetErrorCounts
    \/ ClockTick

SpecErrors == InitErrors /\ [][NextErrors]_vars

\* The categories of the errors handled since the last reset, the number of
\* errors handled in a category and the time of the last of them
HandledCategories == { handled[i].category : i \in 1..Len(handled) }
HandledIn(c) == { i \in 1..Len(handled) : handled[i].category = c }
LastHandledAt(c) == handled[CHOOSE i \in HandledIn(c) :
                               \A j \in HandledIn(c) : j <= i].at

\* C26: after n errors of one category were handled through any of
\* handle_api_error, handle_database_error and handle_processing_error,
\* get_error_summary reports that category with count n and the time of its
\* last occurrence, until reset_error_counts.
C26_EveryHandledErrorCounted ==
    \A c \in HandledCategories :
        /\ c \in DOMAIN GetErrorSummary
        /\ GetErrorSummary[c].count = Cardinality(HandledIn(c))
        /\ GetErrorSummary[c].last_occurrence = LastHandledAt(c)

====
